---- MODULE Spec2Model ----
(***************************************************************************)
(* A model of the subtitle round-trip layer of Murasaki-Translator:        *)
(*   documents/ass.py       AssDocument (load, save, _ass_time_to_srt)     *)
(*   fixer/kana_fixer.py    KanaFixer.fix                                  *)
(*   fixer/number_fixer.py  NumberFixer.fix                                *)
(*                                                                         *)
(* Text of a document is a sequence of one-character strings ("\n" is the  *)
(* newline, "\\" the backslash, FW_* the full-width brackets).  Text given *)
(* to the two fixers is a sequence of Unicode code points, because their   *)
(* code decides by code-point ranges.                                      *)
(***************************************************************************)
EXTENDS Integers, Sequences, FiniteSets, TLC

VARIABLES
    pc,                 \* "new" | "loaded" | "saved" | "kana" | "num" | "num_done"
    file,               \* the lines of the file at self.path (no line terminators)
    headers,            \* self.headers
    events_header,      \* self.events_header (<<>> models None)
    event_templates,    \* self.event_templates
    total_event_count,  \* self.total_event_count
    items,              \* the list returned by the last load()
    blocks,             \* the blocks argument of save()
    out_file,           \* the lines written to output_path by save()
    load_count,         \* history: number of completed load() calls
    hdr_src,            \* history: for each entry of headers, its line number in file
    tmpl_src,           \* history: for each entry of event_templates, its line number
    item_src,           \* history: for each returned item, its line number
    damage,             \* history: what the transformer did to the blocks, and to which unit
    kana_in,            \* KanaFixer harness: the text first given to fix
    kana_cur,           \* KanaFixer harness: the result of the last fix
    kana_prev,          \* KanaFixer harness: the argument of the last fix
    kana_passes,        \* KanaFixer harness: number of fix calls made
    num_src,            \* NumberFixer harness: src
    num_dst,            \* NumberFixer harness: dst
    num_out             \* NumberFixer harness: the result of fix(src, dst)

docVars  == <<file, headers, events_header, event_templates, total_event_count,
              items, blocks, out_file, load_count, hdr_src, tmpl_src, item_src, damage>>
kanaVars == <<kana_in, kana_cur, kana_prev, kana_passes>>
numVars  == <<num_src, num_dst, num_out>>
vars     == <<pc, docVars, kanaVars, numVars>>

(***************************************************************************)
(* Bounds of the model.                                                    *)
(***************************************************************************)
MaxKanaLen == 4
MaxNumSrcLen == 3
MaxNumDstLen == 3

(***************************************************************************)
(* Python's str and list operations, on sequences.                         *)
(***************************************************************************)
Min(a, b) == IF a < b THEN a ELSE b

\* s[i:] for a 1-based i
From(s, i) == SubSeq(s, i, Len(s))

\* s.startswith(p) at offset i (1-based)
MatchesAt(s, i, p) ==
    /\ i + Len(p) - 1 <= Len(s)
    /\ \A k \in 1..Len(p) : s[i + k - 1] = p[k]

StartsWith(s, p) == MatchesAt(s, 1, p)

\* the least element of a non-empty set of integers
Least(S) == CHOOSE x \in S : \A y \in S : x <= y

\* the first index j >= i of s with s[j] in T, Len(s) + 1 when there is none
FirstIn(s, i, T) ==
    CHOOSE j \in i..(Len(s) + 1) :
        /\ (j = Len(s) + 1 \/ s[j] \in T)
        /\ \A k \in i..(j - 1) : s[k] \notin T

\* the first index j >= i of s with s[j] not in T, Len(s) + 1 when there is none
FirstNotIn(s, i, T) ==
    CHOOSE j \in i..(Len(s) + 1) :
        /\ (j = Len(s) + 1 \/ s[j] \notin T)
        /\ \A k \in i..(j - 1) : s[k] \in T

\* s.find(sub, i): the first index >= i where sub occurs, 0 when there is none
Find(s, sub, i) ==
    LET at == {j \in i..(Len(s) - Len(sub) + 1) : MatchesAt(s, j, sub)}
    IN  IF at = {} THEN 0 ELSE Least(at)

\* sub in s
Contains(s, sub) == Find(s, sub, 1) # 0

\* s.replace(old, new), old non-empty: leftmost non-overlapping occurrences
RECURSIVE Replace(_, _, _)
Replace(s, old, new) ==
    LET i == Find(s, old, 1)
    IN  IF i = 0 THEN s
        ELSE SubSeq(s, 1, i - 1) \o new \o Replace(From(s, i + Len(old)), old, new)

\* s.split(sep, maxsplit), sep non-empty; maxsplit = -1 is unlimited
RECURSIVE Split(_, _, _)
Split(s, sep, maxsplit) ==
    LET i == IF maxsplit = 0 THEN 0 ELSE Find(s, sep, 1)
    IN  IF i = 0 THEN <<s>>
        ELSE <<SubSeq(s, 1, i - 1)>> \o Split(From(s, i + Len(sep)), sep, maxsplit - 1)

\* sep.join(parts)
RECURSIVE Join(_, _)
Join(parts, sep) ==
    IF parts = <<>> THEN <<>>
    ELSE IF Len(parts) = 1 THEN parts[1]
    ELSE parts[1] \o sep \o Join(Tail(parts), sep)

\* str.isspace for the characters of the model
Whitespace == {" ", "\t", "\n", "\r"}
IsSpace(c) == c \in Whitespace

DigitChars == {"0", "1", "2", "3", "4", "5", "6", "7", "8", "9"}
IsDigit(c) == c \in DigitChars

\* s.strip(): from the first to the last character that is no whitespace
Strip(s) ==
    LET solid == {k \in 1..Len(s) : ~IsSpace(s[k])}
    IN  IF solid = {} THEN <<>>
        ELSE SubSeq(s, FirstNotIn(s, 1, Whitespace),
                    CHOOSE k \in solid : \A j \in solid : j <= k)

\* s.zfill(2) and s.ljust(2, '0') (no sign characters occur in the model)
ZFill2(s) == IF Len(s) = 0 THEN <<"0", "0">> ELSE IF Len(s) = 1 THEN <<"0">> \o s ELSE s
LJust2(s) == IF Len(s) = 0 THEN <<"0", "0">> ELSE IF Len(s) = 1 THEN s \o <<"0">> ELSE s

\* c.lower() for the letters of the model
UpperCase == <<"A", "B", "C", "D", "E", "F", "G", "H", "I", "J", "K", "L", "M",
               "N", "O", "P", "Q", "R", "S", "T", "U", "V", "W", "X", "Y", "Z">>
LowerCase == <<"a", "b", "c", "d", "e", "f", "g", "h", "i", "j", "k", "l", "m",
               "n", "o", "p", "q", "r", "s", "t", "u", "v", "w", "x", "y", "z">>
LowerChar(c) ==
    IF \E k \in 1..26 : UpperCase[k] = c
    THEN LowerCase[CHOOSE k \in 1..26 : UpperCase[k] = c]
    ELSE c
Lower(s) == [k \in 1..Len(s) |-> LowerChar(s[k])]

\* str(n) for n >= 0
Digits == <<"0", "1", "2", "3", "4", "5", "6", "7", "8", "9">>
RECURSIVE IntToStr(_)
IntToStr(n) == IF n < 10 THEN <<Digits[n + 1]>> ELSE IntToStr(n \div 10) \o <<Digits[(n % 10) + 1]>>

\* all sequences over S of length <= n
RECURSIVE SeqsUpTo(_, _)
SeqsUpTo(S, n) ==
    IF n = 0 THEN {<<>>}
    ELSE LET shorter == SeqsUpTo(S, n - 1)
         IN  shorter \cup {Append(s, c) : s \in {t \in shorter : Len(t) = n - 1}, c \in S}

(***************************************************************************)
(* fixer/kana_fixer.py                                                     *)
(***************************************************************************)
KANA_TO_CLEAN ==
    {\H30C3, \H3063,
     \H3041, \H3043, \H3045, \H3047, \H3049,
     \H3083, \H3085, \H3087, \H308E,
     \H306E, \H306F, \H306B, \H3092, \H305F, \H3066, \H3067}

HIRAGANA_START == \H3040
HIRAGANA_END == \H309F
KATAKANA_START == \H30A0
KATAKANA_END == \H30FF
CJK_START == \H4E00
CJK_END == \H9FFF

\* A neighbour that does not exist (prev_char / next_char is None)
None == -1

is_japanese_char(char) ==
    /\ char # None
    /\ \/ (HIRAGANA_START <= char /\ char <= HIRAGANA_END)
       \/ (KATAKANA_START <= char /\ char <= KATAKANA_END)
       \/ (CJK_START <= char /\ char <= CJK_END)

\* PROTECTION_PAIRS: opening character -> closing character
PROTECTION_PAIRS ==
    {<<\H201C, \H201D>>, <<\H2018, \H2019>>, <<\H300C, \H300D>>, <<\H300E, \H300F>>,
     <<\HFF08, \HFF09>>, <<\H28, \H29>>, <<\H300A, \H300B>>, <<\H3008, \H3009>>,
     <<\H3010, \H3011>>, <<\HFF3B, \HFF3D>>, <<\H5B, \H5D>>}

\* the quote characters that close themselves: " ' `
SELF_QUOTES == {\H22, \H27, \H60}

is_protected(prev_char, next_char) ==
    \/ <<prev_char, next_char>> \in PROTECTION_PAIRS
    \/ (prev_char \in SELF_QUOTES /\ next_char = prev_char)

\* the characters of the string tested by is_at_end; its last character is a space
KanaEndMarks ==
    {\H3002, \HFF01, \HFF1F, \HFF0C, \HFF1B, \HFF1A, \H201D, \H300D, \H300F,
     \HFF09, \H3009, \H300B, \H3011, \HFF3D, \H5D, \H2026, \H20}

is_at_end(next_char) == next_char = None \/ next_char \in KanaEndMarks

\* KanaKeeps with the left neighbour left out of the retention rule
KanaKeepsMutant(dst, i) ==
    LET char == dst[i]
        prev_char == IF i > 1 THEN dst[i - 1] ELSE None
        next_char == IF i < Len(dst) THEN dst[i + 1] ELSE None
    IN  IF char \in KANA_TO_CLEAN
        THEN IF is_japanese_char(next_char) \/ is_protected(prev_char, next_char)
             THEN TRUE
             ELSE ~is_at_end(next_char)
        ELSE TRUE

\* the body of the for loop of fix: whether dst[i] is appended to result
KanaKeeps(dst, i) ==
    LET char == dst[i]
        prev_char == IF i > 1 THEN dst[i - 1] ELSE None
        next_char == IF i < Len(dst) THEN dst[i + 1] ELSE None
        is_prev_japanese == prev_char # None /\ is_japanese_char(prev_char)
        is_next_japanese == next_char # None /\ is_japanese_char(next_char)
    IN  IF char \in KANA_TO_CLEAN
        THEN IF is_prev_japanese \/ is_next_japanese \/ is_protected(prev_char, next_char)
             THEN TRUE
             ELSE ~is_at_end(next_char)
        ELSE TRUE

\* the for loop of fix, from index i on
RECURSIVE KanaScan(_, _)
KanaScan(dst, i) ==
    IF i > Len(dst) THEN <<>>
    ELSE (IF KanaKeeps(dst, i) THEN <<dst[i]>> ELSE <<>>) \o KanaScan(dst, i + 1)

KanaFix(dst) ==
    IF dst = <<>> THEN dst
    ELSE IF ~(\E k \in 1..Len(dst) : dst[k] \in KANA_TO_CLEAN) THEN dst
    ELSE KanaScan(dst, 1)

(***************************************************************************)
(* fixer/number_fixer.py                                                   *)
(***************************************************************************)
\* \d, for the ASCII digits (the only digits of the model's alphabet)
IsNumDigit(c) == \H30 <= c /\ c <= \H39

\* the character class of PATTERN_CIRCLED_NUM
IsCircled(c) ==
    \/ (\H2460 <= c /\ c <= \H2473)
    \/ (\H3251 <= c /\ c <= \H325F)
    \/ (\H32B1 <= c /\ c <= \H32BF)
    \/ (\H2776 <= c /\ c <= \H277F)
    \/ (\H24EB <= c /\ c <= \H24F4)

\* the end (exclusive) of the digit run that starts at i
RECURSIVE DigitRunEnd(_, _)
DigitRunEnd(s, i) ==
    IF i <= Len(s) /\ IsNumDigit(s[i]) THEN DigitRunEnd(s, i + 1) ELSE i

\* PATTERN_ALL_NUM.findall(s), from index i on
RECURSIVE FindAllNum(_, _)
FindAllNum(s, i) ==
    IF i > Len(s) THEN <<>>
    ELSE IF IsNumDigit(s[i])
         THEN <<SubSeq(s, i, DigitRunEnd(s, i) - 1)>> \o FindAllNum(s, DigitRunEnd(s, i))
    ELSE IF IsCircled(s[i]) THEN <<(<<s[i]>>)>> \o FindAllNum(s, i + 1)
    ELSE FindAllNum(s, i + 1)

\* PATTERN_CIRCLED_NUM.findall(s) is non-empty
HasCircled(s) == \E k \in 1..Len(s) : IsCircled(s[k])

RECURSIVE DecimalValue(_)
DecimalValue(s) ==
    IF s = <<>> THEN 0 ELSE 10 * DecimalValue(SubSeq(s, 1, Len(s) - 1)) + (s[Len(s)] - \H30)

\* safe_int without the > 0 test's strictness: 0 counts as a number to restore
safe_int_mutant(s) ==
    IF s # <<>> /\ \A k \in 1..Len(s) : IsNumDigit(s[k]) THEN DecimalValue(s) + 1 ELSE -1

safe_int(s) ==
    IF s # <<>> /\ \A k \in 1..Len(s) : IsNumDigit(s[k]) THEN DecimalValue(s) ELSE -1

\* PATTERN_ALL_NUM.sub(repl, dst) from index p on; n is the closure's counter i[0]
RECURSIVE SubByIndex(_, _, _, _, _)
SubByIndex(dst, p, n, target_i, target_str) ==
    IF p > Len(dst) THEN <<>>
    ELSE IF IsNumDigit(dst[p]) \/ IsCircled(dst[p])
         THEN LET e == IF IsNumDigit(dst[p]) THEN DigitRunEnd(dst, p) ELSE p + 1
              IN  (IF n = target_i THEN target_str ELSE SubSeq(dst, p, e - 1))
                  \o SubByIndex(dst, e, n + 1, target_i, target_str)
    ELSE <<dst[p]>> \o SubByIndex(dst, p + 1, n, target_i, target_str)

\* fix_by_index by string search: the first occurrence of the target_i-th token's text
fix_by_index_mutant(dst, target_i, target_str) ==
    LET toks == FindAllNum(dst, 1)
        old  == toks[target_i + 1]
        at   == Find(dst, old, 1)
    IN  SubSeq(dst, 1, at - 1) \o target_str \o From(dst, at + Len(old))

fix_by_index(dst, target_i, target_str) == SubByIndex(dst, 1, 0, target_i, target_str)

\* the for loop of fix, from index i (0-based) on
RECURSIVE NumFixLoop(_, _, _, _, _)
NumFixLoop(src_nums, dst_nums, dst, i, limit) ==
    IF i >= limit THEN dst
    ELSE LET src_num_str == src_nums[i + 1]
             dst_num_str == dst_nums[i + 1]
         IN  IF ~IsCircled(src_num_str[1])
             THEN NumFixLoop(src_nums, dst_nums, dst, i + 1, limit)
             ELSE IF safe_int(dst_num_str) > 0
                  THEN NumFixLoop(src_nums, dst_nums,
                                  fix_by_index(dst, i, src_num_str), i + 1, limit)
                  ELSE NumFixLoop(src_nums, dst_nums, dst, i + 1, limit)

NumberFix(src, dst) ==
    LET src_nums == FindAllNum(src, 1)
        dst_nums == FindAllNum(dst, 1)
    IN  IF ~HasCircled(src) THEN dst
        ELSE NumFixLoop(src_nums, dst_nums, dst, 0, Min(Len(src_nums), Len(dst_nums)))

(***************************************************************************)
(* The state of a freshly constructed AssDocument (__init__), and the      *)
(* idle values of the two fixer harnesses.                                 *)
(***************************************************************************)
DocFresh(f) ==
    /\ file = f
    /\ headers = <<>>
    /\ events_header = <<>>
    /\ event_templates = <<>>
    /\ total_event_count = 0
    /\ items = <<>>
    /\ blocks = <<>>
    /\ out_file = <<>>
    /\ load_count = 0
    /\ hdr_src = <<>>
    /\ tmpl_src = <<>>
    /\ item_src = <<>>
    /\ damage = <<"none", 0>>

KanaIdle == kana_in = <<>> /\ kana_cur = <<>> /\ kana_prev = <<>> /\ kana_passes = 0
NumIdle == num_src = <<>> /\ num_dst = <<>> /\ num_out = <<>>

(***************************************************************************)
(* KanaFixer.fix applied to a text, and again to its own result.           *)
(***************************************************************************)
\* a residual glyph, a source-script character that is none, a Latin letter, a space,
\* a sentence-final mark, a bracket pair and a self-closing quote
KanaAlphabet == {\H306E, \H3042, \H61, \H20, \H3002, \H300C, \H300D, \H22}

KanaInit ==
    /\ pc = "kana"
    /\ kana_in \in SeqsUpTo(KanaAlphabet, MaxKanaLen)
    /\ kana_cur = kana_in
    /\ kana_prev = kana_in
    /\ kana_passes = 0
    /\ DocFresh(<<>>)
    /\ NumIdle

KanaFixCall ==
    /\ pc = "kana"
    /\ kana_passes < 2
    /\ kana_prev' = kana_cur
    /\ kana_cur' = KanaFix(kana_cur)
    /\ kana_passes' = kana_passes + 1
    /\ UNCHANGED <<pc, kana_in, docVars, numVars>>

SpecKana == KanaInit /\ [][KanaFixCall]_vars

(***************************************************************************)
(* NumberFixer.fix applied to a source text and a translated text.         *)
(***************************************************************************)
\* a letter, the digits 0 and 1, and the circled numbers 1 and 2
NumSrcAlphabet == {\H78, \H31, \H2460, \H2461}
NumDstAlphabet == {\H78, \H30, \H31, \H2460}

NumInit ==
    /\ pc = "num"
    /\ num_src \in SeqsUpTo(NumSrcAlphabet, MaxNumSrcLen)
    /\ num_dst \in SeqsUpTo(NumDstAlphabet, MaxNumDstLen)
    /\ num_out = <<>>
    /\ DocFresh(<<>>)
    /\ KanaIdle

NumFixCall ==
    /\ pc = "num"
    /\ num_out' = NumberFix(num_src, num_dst)
    /\ pc' = "num_done"
    /\ UNCHANGED <<num_src, num_dst, docVars, kanaVars>>

SpecNum == NumInit /\ [][NumFixCall]_vars

(***************************************************************************)
(* Claims about the fixers.                                                *)
(***************************************************************************)
\* C4: KanaFixer.fix is idempotent: a second pass over the result of a first pass
\* returns it unchanged.
C4_KanaIdempotent == kana_passes = 2 => kana_cur = kana_prev

\* C4 witness: the first pass removed a glyph and retained another one, and the
\* second pass has run.
C4_Witness ==
    /\ kana_passes = 2
    /\ Len(kana_prev) < Len(kana_in)
    /\ \E k \in 1..Len(kana_prev) : kana_prev[k] \in KANA_TO_CLEAN

\* The punctuation the claim names: the sentence-final and closing marks tested by
\* the code, without the space, which is no punctuation mark.
ClaimedEndMarks == KanaEndMarks \ {\H20}

\* whether the claim has the glyph at index i of x removed
ClaimedDropped(x, i) ==
    LET prev == IF i > 1 THEN x[i - 1] ELSE None
        next == IF i < Len(x) THEN x[i + 1] ELSE None
    IN  /\ x[i] \in KANA_TO_CLEAN
        /\ ~is_japanese_char(prev) /\ ~is_japanese_char(next)
        /\ ~is_protected(prev, next)
        /\ (next = None \/ next \in ClaimedEndMarks)

RECURSIVE ClaimedKanaFilter(_, _)
ClaimedKanaFilter(x, i) ==
    IF i > Len(x) THEN <<>>
    ELSE (IF ClaimedDropped(x, i) THEN <<>> ELSE <<x[i]>>) \o ClaimedKanaFilter(x, i + 1)

\* C5: fix returns its argument with exactly the residual glyphs removed that have no
\* source-script neighbour, are not enclosed by a matching pair, and are followed by
\* end-of-text or a sentence-final/closing punctuation mark.
C5_KanaFilterAsClaimed == kana_passes >= 1 => kana_cur = ClaimedKanaFilter(kana_prev, 1)

\* the tokens of x with every replaceable one replaced, as the claim states it
ClaimedNumTokens(src, dst) ==
    LET st == FindAllNum(src, 1)
        dt == FindAllNum(dst, 1)
    IN  [i \in 1..Len(dt) |->
            IF /\ i <= Len(st)
               /\ IsCircled(st[i][1])
               /\ \A k \in 1..Len(dt[i]) : IsNumDigit(dt[i][k])
               /\ DecimalValue(dt[i]) > 0
            THEN st[i] ELSE dt[i]]

\* x with its tokens taken out: the characters that are neither digits nor circled
NonTokenChars(x) == SelectSeq(x, LAMBDA c : ~IsNumDigit(c) /\ ~IsCircled(c))

\* for each token of x, the number of non-token characters before it
RECURSIVE TokenOffsets(_, _, _)
TokenOffsets(x, i, seen) ==
    IF i > Len(x) THEN <<>>
    ELSE IF IsNumDigit(x[i]) THEN <<seen>> \o TokenOffsets(x, DigitRunEnd(x, i), seen)
    ELSE IF IsCircled(x[i]) THEN <<seen>> \o TokenOffsets(x, i + 1, seen)
    ELSE TokenOffsets(x, i + 1, seen + 1)

\* C6: fix(src, dst) is dst with the i-th token replaced by src's i-th token wherever
\* i is below both token counts, src's token is a circled glyph and dst's token is a
\* digit run of value > 0; every other token, every non-token character and the
\* places of the tokens among them are those of dst; without a circled glyph in src
\* the result is dst.
C6_NumberFixAsClaimed ==
    pc = "num_done" =>
        /\ FindAllNum(num_out, 1) = ClaimedNumTokens(num_src, num_dst)
        /\ NonTokenChars(num_out) = NonTokenChars(num_dst)
        /\ TokenOffsets(num_out, 1, 0) = TokenOffsets(num_dst, 1, 0)
        /\ (~(\E k \in 1..Len(num_src) : IsCircled(num_src[k])) => num_out = num_dst)

\* C6 witness: a digit run was replaced by a circled glyph of another value, while a
\* later token of dst was left as it was.
C6_Witness ==
    /\ pc = "num_done"
    /\ num_src = <<\H2461, \H31>>
    /\ num_dst = <<\H31, \H78, \H31>>
    /\ num_out = <<\H2461, \H78, \H31>>

(***************************************************************************)
(* documents/ass.py: AssDocument.load                                      *)
(***************************************************************************)
\* characters outside ASCII that the code names
BOM == "U+FEFF"
FW_LBRACKET == "U+3010"
FW_RBRACKET == "U+3011"
FW_LPAREN == "U+FF08"
FW_RPAREN == "U+FF09"

KW_EVENTS == <<"[", "E", "v", "e", "n", "t", "s", "]">>
KW_FORMAT == <<"F", "o", "r", "m", "a", "t", ":">>
KW_DIALOGUE == <<"D", "i", "a", "l", "o", "g", "u", "e", ":">>
ZERO_TIME == <<"0", "0", ":", "0", "0", ":", "0", "0", ",", "0", "0", "0">>

\* _ass_time_to_srt; no statement of its try block can raise, so the except
\* branch is never taken
ass_time_to_srt(ass_time) ==
    LET parts == Split(Strip(ass_time), <<".">>, -1)
        main_time == parts[1]
        cs == IF Len(parts) > 1 THEN parts[2] ELSE <<"0", "0">>
        hms == Split(main_time, <<":">>, -1)
    IN  IF Len(hms) = 3
        THEN ZFill2(hms[1]) \o <<":">> \o hms[2] \o <<":">> \o hms[3]
             \o <<",">> \o LJust2(cs) \o <<"0">>
        ELSE ZERO_TIME

\* the end (exclusive) of the run of digits that starts at i
SkipDigits(s, i) == FirstNotIn(s, i, DigitChars)

\* the end (exclusive) of the run of whitespace that starts at i
SkipSpace(s, i) == FirstNotIn(s, i, Whitespace)

\* a match of \{\\[kK][fo]?\d+\} at i: its end (exclusive), 0 when there is none
KaraokeEnd(s, i) ==
    IF /\ i + 2 <= Len(s)
       /\ s[i] = "{" /\ s[i + 1] = "\\" /\ s[i + 2] \in {"k", "K"}
    THEN LET d == IF i + 3 <= Len(s) /\ s[i + 3] \in {"f", "o"} THEN i + 4 ELSE i + 3
             e == SkipDigits(s, d)
         IN  IF e > d /\ e <= Len(s) /\ s[e] = "}" THEN e + 1 ELSE 0
    ELSE 0

\* re.sub(r'\{\\[kK][fo]?\d+\}', '', s), from index i on: the text up to the
\* leftmost match, then the rest after that match
RECURSIVE StripKaraoke(_, _)
StripKaraoke(s, i) ==
    LET at == {j \in i..Len(s) : KaraokeEnd(s, j) # 0}
    IN  IF at = {} THEN From(s, i)
        ELSE SubSeq(s, i, Least(at) - 1) \o StripKaraoke(s, KaraokeEnd(s, Least(at)))

\* lines 88-110: the text of the block, with the speaker and style hints
ContextPrefix(actor_name, style_name, raw_text) ==
    LET actor == IF actor_name # <<>> /\ ~Contains(raw_text, actor_name)
                 THEN <<"[">> \o actor_name \o <<"]">> ELSE <<>>
        is_meaningful_style ==
            /\ style_name # <<>>
            /\ Lower(style_name) # <<"d", "e", "f", "a", "u", "l", "t">>
            /\ ~IsDigit(style_name[1])
            /\ ~Contains(raw_text, style_name)
        style == IF is_meaningful_style THEN <<"(">> \o style_name \o <<")">> ELSE <<>>
    IN  actor \o style

FinalPromptText(actor_name, style_name, raw_text) ==
    LET context_prefix == ContextPrefix(actor_name, style_name, raw_text)
    IN  IF context_prefix # <<>> THEN context_prefix \o <<" ">> \o raw_text ELSE raw_text

\* line 113
PseudoSrtBlock(event_idx, srt_start, srt_end, final_prompt_text) ==
    IntToStr(event_idx) \o <<"\n">> \o srt_start \o <<" ", "-", "-", ">", " ">> \o srt_end \o <<"\n">>
    \o final_prompt_text \o <<"\n", "\n">>

\* line 118
TemplatePrefix(parts) == Join(SubSeq(parts, 1, 9), <<",">>) \o <<",">>

\* the state of the loop of load: the object's fields, the locals items, is_events and
\* event_idx, and the history of where each stored entry came from
LoadStart ==
    [headers |-> headers, events_header |-> events_header,
     event_templates |-> event_templates, items |-> <<>>,
     is_events |-> FALSE, event_idx |-> 1,
     hdr_src |-> hdr_src, tmpl_src |-> tmpl_src, item_src |-> <<>>]

\* self.headers.append(line); continue
AppendHeader(st, line, n) ==
    [st EXCEPT !.headers = Append(@, line), !.hdr_src = Append(@, n)]

\* lines 64-125: a Dialogue: line inside the event section
LoadDialogue(st, line, n) ==
    LET parts == Split(line, <<",">>, 9)
    IN  IF Len(parts) < 10 THEN AppendHeader(st, line, n)
        ELSE LET start_time == Strip(parts[2])
                 end_time == Strip(parts[3])
                 style_name == Strip(parts[4])
                 actor_name == Strip(parts[5])
                 raw_text == StripKaraoke(parts[10], 1)
                 srt_start == ass_time_to_srt(start_time)
                 srt_end == ass_time_to_srt(end_time)
                 final_prompt_text == FinalPromptText(actor_name, style_name, raw_text)
                 block == PseudoSrtBlock(st.event_idx, srt_start, srt_end, final_prompt_text)
             IN  [st EXCEPT
                    !.event_templates = Append(@, TemplatePrefix(parts)),
                    !.tmpl_src = Append(@, n),
                    !.items = Append(@, [text |-> block, meta |-> "ass_structural"]),
                    !.item_src = Append(@, n),
                    !.event_idx = @ + 1]

\* line 53
IsEventsLine(line) == StartsWith(line, KW_EVENTS)

\* lines 44-129: the body of the loop, for line number n of the file
LoadLine(st, raw, n) ==
    LET stripped == Strip(raw)
        line == IF StartsWith(stripped, <<BOM>>) THEN Tail(stripped) ELSE stripped
    IN  IF line = <<>> THEN AppendHeader(st, line, n)
        ELSE IF IsEventsLine(line)
             THEN AppendHeader([st EXCEPT !.is_events = TRUE], line, n)
        ELSE IF st.is_events
             THEN IF StartsWith(line, KW_FORMAT)
                  THEN AppendHeader([st EXCEPT !.events_header = line], line, n)
                  ELSE IF StartsWith(line, KW_DIALOGUE) THEN LoadDialogue(st, line, n)
                  ELSE AppendHeader(st, line, n)
        ELSE AppendHeader(st, line, n)

\* the for loop of load, from line n on
RECURSIVE LoadLoop(_, _, _)
LoadLoop(st, lines, n) ==
    IF n > Len(lines) THEN st ELSE LoadLoop(LoadLine(st, lines[n], n), lines, n + 1)


(***************************************************************************)
(* documents/ass.py: AssDocument.save (the second definition, which is the *)
(* one the class keeps)                                                    *)
(***************************************************************************)
\* line 155: getattr(b, 'dst', '') or b.prompt_text
BlockContent(b) == IF b.dst # <<>> THEN b.dst ELSE b.prompt_text

\* lines 152-157
RECURSIVE FullStream(_)
FullStream(bs) ==
    IF bs = <<>> THEN <<>>
    ELSE (IF BlockContent(bs[1]) # <<>> THEN BlockContent(bs[1]) \o <<"\n", "\n">> ELSE <<>>)
         \o FullStream(Tail(bs))

\* line 161
NormalizeBreaks(s) == Replace(Replace(s, <<"\\", "N">>, <<"\n">>), <<"\\", "n">>, <<"\n">>)

\* \d{2}:\d{2}:\d{2}[,.] at i: its end (exclusive), 0 when it does not match
HmsEnd(s, i) ==
    IF /\ i + 8 <= Len(s)
       /\ IsDigit(s[i]) /\ IsDigit(s[i + 1]) /\ s[i + 2] = ":"
       /\ IsDigit(s[i + 3]) /\ IsDigit(s[i + 4]) /\ s[i + 5] = ":"
       /\ IsDigit(s[i + 6]) /\ IsDigit(s[i + 7]) /\ s[i + 8] \in {",", "."}
    THEN i + 9 ELSE 0

\* the end (exclusive) of the run of [-=>] that starts at i
SkipArrow(s, i) == FirstNotIn(s, i, {"-", "=", ">"})

\* .*?(?:\n|$) at i: the end (exclusive) of the line, its newline included
LineEnd(s, i) ==
    LET nl == FirstIn(s, i, {"\n"})
    IN  IF nl > Len(s) THEN nl ELSE nl + 1

\* whether s[a..b-1] holds a newline
HasNewline(s, a, b) == \E k \in a..(b - 1) : s[k] = "\n"

\* header_pattern, piece by piece.  Every repetition in it is followed by a
\* character it cannot match, so each run is the maximal one; every operator
\* returns the end (exclusive) of the whole match, 0 when there is none.

\* \d{1,3}.*?(?:\n|$) at h, the end of the second \d{2}:\d{2}:\d{2}[,.]
HeaderMillis2(s, h) ==
    IF h # 0 /\ SkipDigits(s, h) > h THEN LineEnd(s, h) ELSE 0

\* [-=>]+\s*\d{2}:\d{2}:\d{2}[,.] at f, with g the end of the run of [-=>]
HeaderArrow(s, f, g) ==
    IF g > f THEN HeaderMillis2(s, HmsEnd(s, SkipSpace(s, g))) ELSE 0

\* \s*[-=>]+ at e, the end of the first \d{1,3}, which starts at d
HeaderMillis1(s, d, e) ==
    IF e - d >= 1 /\ e - d <= 3
    THEN HeaderArrow(s, SkipSpace(s, e), SkipArrow(s, SkipSpace(s, e)))
    ELSE 0

\* \d{1,3} at d, the end of the first \d{2}:\d{2}:\d{2}[,.]
HeaderTime1(s, d) == IF d # 0 THEN HeaderMillis1(s, d, SkipDigits(s, d)) ELSE 0

\* \s*\n\s*\d{2}:\d{2}:\d{2}[,.] at b, the end of \d+, with c the end of the white
\* space after it
HeaderGap(s, b, c) == IF HasNewline(s, b, c) THEN HeaderTime1(s, HmsEnd(s, c)) ELSE 0

\* \d+ at a, with b the end of the run of digits
HeaderIndex(s, a, b) == IF b > a THEN HeaderGap(s, b, SkipSpace(s, b)) ELSE 0

\* header_pattern after its (?:^|\n), at q
HeaderBodyEnd(s, q) == HeaderIndex(s, SkipSpace(s, q), SkipDigits(s, SkipSpace(s, q)))

\* header_pattern matched at p (re.MULTILINE): the end of the match, 0 when none
HeaderMatchEnd(s, p) ==
    LET at_line_start == (p = 1) \/ (s[p - 1] = "\n")
        by_caret == IF at_line_start THEN HeaderBodyEnd(s, p) ELSE 0
    IN  IF by_caret # 0 THEN by_caret
        ELSE IF p <= Len(s) /\ s[p] = "\n" THEN HeaderBodyEnd(s, p + 1)
        ELSE 0

\* header_pattern.split(s), from index p on: the piece up to the leftmost match,
\* then the pieces of the rest after that match
RECURSIVE HeaderSplit(_, _)
HeaderSplit(s, p) ==
    LET at == {q \in p..Len(s) : HeaderMatchEnd(s, q) # 0}
    IN  IF at = {} THEN <<From(s, p)>>
        ELSE <<SubSeq(s, p, Least(at) - 1)>> \o HeaderSplit(s, HeaderMatchEnd(s, Least(at)))

\* [s.strip() for s in segs]
StripAll(segs) == [k \in 1..Len(segs) |-> Strip(segs[k])]

\* lines 166-178 with segment 0, the text before the first header, kept as a unit
TranslatedUnitsMutant(full_stream) ==
    LET segments == HeaderSplit(full_stream, 1)
    IN  IF Len(segments) > 1
        THEN StripAll(segments)
        ELSE SelectSeq(StripAll(Split(full_stream, <<"\n", "\n">>, -1)),
                       LAMBDA u : u # <<>>)

\* lines 166-178
TranslatedUnits(full_stream) ==
    LET segments == HeaderSplit(full_stream, 1)
    IN  IF Len(segments) > 1
        THEN StripAll(Tail(segments))
        ELSE SelectSeq(StripAll(Split(full_stream, <<"\n", "\n">>, -1)),
                       LAMBDA u : u # <<>>)

\* .*? up to the first closing character on the line, from i on: the index after
\* it, 0 when the line holds none
CloseEnd(s, i, closers) ==
    LET j == FirstIn(s, i, closers \cup {"\n"})
    IN  IF j > Len(s) \/ s[j] = "\n" THEN 0 ELSE j + 1

\* line 196 with the pattern for the parenthesised tag left out
StripContextMutant(t) ==
    LET b0 == IF t # <<>> /\ t[1] = "[" THEN CloseEnd(t, 2, {"]"})
              ELSE IF t # <<>> /\ t[1] = FW_LBRACKET THEN CloseEnd(t, 2, {FW_RBRACKET})
              ELSE 0
        b  == IF b0 # 0 THEN b0 ELSE 1
    IN  Strip(From(t, SkipSpace(t, b)))

\* line 196: re.sub(r'^(?:\[.*?\]|【.*?】)?(?:[\(（].*?[\)）])?\s*', '', t).strip()
StripContext(t) ==
    LET b0 == IF t # <<>> /\ t[1] = "[" THEN CloseEnd(t, 2, {"]"})
              ELSE IF t # <<>> /\ t[1] = FW_LBRACKET THEN CloseEnd(t, 2, {FW_RBRACKET})
              ELSE 0
        b  == IF b0 # 0 THEN b0 ELSE 1
        p0 == IF b <= Len(t) /\ t[b] \in {"(", FW_LPAREN}
              THEN CloseEnd(t, b + 1, {")", FW_RPAREN}) ELSE 0
        p  == IF p0 # 0 THEN p0 ELSE b
    IN  Strip(From(t, SkipSpace(t, p)))

\* lines 203-204
RECURSIVE DedupeBreaks(_)
DedupeBreaks(t) ==
    IF Contains(t, <<"\\", "N", "\\", "N">>)
    THEN DedupeBreaks(Replace(t, <<"\\", "N", "\\", "N">>, <<"\\", "N">>))
    ELSE t

\* lines 196-204: the cleanups of one unit
Cleanup(trans_text) ==
    DedupeBreaks(Replace(StripContext(trans_text), <<"\n">>, <<"\\", "N">>))

\* lines 184-209 with the loop run over the units instead of the templates
EventLinesMutant(templates, units) ==
    [i \in 1..Min(Len(templates), Len(units)) |-> templates[i] \o Cleanup(units[i])]

\* lines 184-209: one line for each template
EventLines(templates, units) ==
    [i \in 1..Len(templates) |->
        LET trans_text == IF i <= Len(units) THEN units[i] ELSE <<>>
        IN  templates[i] \o Cleanup(trans_text)]

\* lines 212-219: the lines written, the headers first
WrittenLines(hdrs, event_lines) == hdrs \o event_lines

\* save(output_path, bs): the lines of the file written
SaveOutput(hdrs, templates, bs) ==
    LET full_stream == NormalizeBreaks(FullStream(bs))
        translated_units == TranslatedUnits(full_stream)
    IN  WrittenLines(hdrs, EventLines(templates, translated_units))


(***************************************************************************)
(* The documents and the transformer outputs the model explores.           *)
(***************************************************************************)
MaxLines == 3
MaxLoads == 2

LINE_BLANK == <<>>
LINE_EVENTS == KW_EVENTS
LINE_FONTS == <<"[", "F", "o", "n", "t", "s", "]">>
LINE_FORMAT == <<"F", "o", "r", "m", "a", "t", ":", " ", "L", "a", "y", "e", "r", ",", " ", "T", "e", "x", "t">>
LINE_SHORT == <<"D", "i", "a", "l", "o", "g", "u", "e", ":", " ", "0", ",", "0", ":", "0", "0", ":", "0", "0", ".", "0", "0">>
LINE_D1 == <<"D", "i", "a", "l", "o", "g", "u", "e", ":", " ", "0", ",", "0", ":", "0", "0", ":", "0", "1", ".", "0", "0", ",", "0", ":", "0", "0", ":", "0", "2", ".", "0", "0", ",", "D", "e", "f", "a", "u", "l", "t", ",", ",", "0", ",", "0", ",", "0", ",", ",", "H", "i">>
LINE_D2 == <<"D", "i", "a", "l", "o", "g", "u", "e", ":", " ", "0", ",", "0", ":", "0", "0", ":", "0", "3", ".", "5", "0", ",", "0", ":", "0", "0", ":", "0", "4", ".", "0", "0", ",", "S", "i", "g", "n", ",", "B", "o", "b", ",", "0", ",", "0", ",", "0", ",", ",", "Y", "o", "\\", "N", "Y", "o">>

LinePool == {LINE_BLANK, LINE_EVENTS, LINE_FONTS, LINE_FORMAT, LINE_SHORT, LINE_D1, LINE_D2}

\* one Dialogue line of the given fields
DialogueLine(start, end, style, name, text) ==
    <<"D", "i", "a", "l", "o", "g", "u", "e", ":", " ", "0", ",">> \o start \o <<",">> \o end \o <<",">> \o style \o <<",">> \o name
    \o <<",", "0", ",", "0", ",", "0", ",", ",">> \o text

\* start and end fields: well-formed, without fraction, with a three-digit fraction,
\* with a letter in the minutes, with two colon parts only, and empty
FieldTimes ==
    {<<"0", ":", "0", "0", ":", "0", "1", ".", "0", "0">>, <<"0", ":", "0", "0", ":", "0", "1">>, <<"0", ":", "0", "0", ":", "0", "1", ".", "1", "2", "3">>, <<"0", ":", "0", "x", ":", "0", "1", ".", "5", "0">>, <<"0", "0", ":", "0", "1", ".", "5", "0">>, <<>>}
FieldStyles == {<<"D", "e", "f", "a", "u", "l", "t">>, <<"S", "i", "g", "n">>, <<"0", "1", "_", "j", "p", "n">>}
FieldNames == {<<>>, <<"B", "o", "b">>}
FieldTexts ==
    {<<"H", "i">>, <<>>, <<"[", "x", "]", " ", "a">>, <<"(", "x", ")", " ", "a">>, <<"a", "\\", "N", "b">>, <<"a", "\\", "N", "\\", "N", "b">>, <<"a", "\\", "n", "b">>,
     <<"{", "\\", "k", "1", "0", "}", "H", "i">>, <<"B", "o", "b", ",", " ", "h", "i">>, <<"9">>}

\* the text of a block after its two header lines
UnitBody(text) ==
    LET n1 == Find(text, <<"\n">>, 1)
        n2 == Find(text, <<"\n">>, n1 + 1)
    IN  From(text, n2 + 1)

\* the two header lines of a block
UnitHeader(text) == SubSeq(text, 1, Len(text) - Len(UnitBody(text)))

TextBlock(dst, prompt_text) == [dst |-> dst, prompt_text |-> prompt_text]

\* the blocks of a transformer that returns every payload unchanged
IdentityBlocks(its) == [i \in 1..Len(its) |-> TextBlock(its[i].text, its[i].text)]

RemoveAt(seq, k) == SubSeq(seq, 1, k - 1) \o SubSeq(seq, k + 1, Len(seq))

DamageKinds == {"drop_header", "bad_header", "duplicate", "merge", "drop_block", "empty_dst"}
GlobalKinds == {"identity", "no_headers"}

\* what the transformer returns for the items of load(); k is the damaged unit
TransformerBlocks(its, kind, k) ==
    LET id == IdentityBlocks(its)
    IN  CASE kind = "identity" -> id
          [] kind = "no_headers" ->
                [i \in 1..Len(its) |-> TextBlock(UnitBody(its[i].text), its[i].text)]
          [] kind = "drop_header" ->
                [id EXCEPT ![k].dst = UnitBody(its[k].text)]
          [] kind = "bad_header" ->
                [id EXCEPT ![k].dst = Replace(its[k].text, <<" ", "-", "-", ">", " ">>, <<" ", "t", "o", " ">>)]
          [] kind = "duplicate" ->
                SubSeq(id, 1, k) \o SubSeq(id, k, Len(id))
          [] kind = "merge" ->
                IF Len(its) = 1 THEN id
                ELSE IF k > 1
                THEN RemoveAt([id EXCEPT ![k - 1].dst =
                                  Strip(its[k - 1].text) \o <<" ">> \o UnitBody(its[k].text)], k)
                ELSE RemoveAt([id EXCEPT ![2].dst =
                                  UnitHeader(its[2].text) \o Strip(UnitBody(its[1].text))
                                  \o <<" ">> \o UnitBody(its[2].text)], 1)
          [] kind = "drop_block" -> RemoveAt(id, k)
          [] kind = "empty_dst" -> [id EXCEPT ![k].dst = <<>>]

(***************************************************************************)
(* The operations of an AssDocument object.                                *)
(***************************************************************************)
Load ==
    /\ pc \in {"new", "loaded"}
    /\ load_count < MaxLoads
    /\ LET st == LoadLoop(LoadStart, file, 1)
       IN  /\ headers' = st.headers
           /\ events_header' = st.events_header
           /\ event_templates' = st.event_templates
           /\ total_event_count' = st.event_idx - 1
           /\ items' = st.items
           /\ hdr_src' = st.hdr_src
           /\ tmpl_src' = st.tmpl_src
           /\ item_src' = st.item_src
    /\ load_count' = load_count + 1
    /\ pc' = "loaded"
    /\ UNCHANGED <<file, blocks, out_file, damage, kanaVars, numVars>>

Save ==
    /\ pc \in {"new", "loaded"}
    /\ \E kind \in DamageKinds \cup GlobalKinds :
       \E k \in (IF kind \in GlobalKinds THEN {0} ELSE 1..Len(items)) :
          /\ blocks' = TransformerBlocks(items, kind, k)
          /\ damage' = <<kind, k>>
    /\ out_file' = SaveOutput(headers, event_templates, blocks')
    /\ pc' = "saved"
    /\ UNCHANGED <<file, headers, events_header, event_templates, total_event_count,
                   items, load_count, hdr_src, tmpl_src, item_src, kanaVars, numVars>>

Next == Load \/ Save

\* files of up to MaxLines lines of the pool
Init ==
    /\ pc = "new"
    /\ \E f \in SeqsUpTo(LinePool, MaxLines) : DocFresh(f)
    /\ KanaIdle
    /\ NumIdle

Spec == Init /\ [][Next]_vars

\* a well-formed start and end field
TIME_A == <<"0", ":", "0", "0", ":", "0", "1", ".", "0", "0">>
TIME_B == <<"0", ":", "0", "0", ":", "0", "2", ".", "5", "0">>

\* files of an event section with one event of well-formed times, of every
\* combination of style, speaker and text
TextsInit ==
    /\ pc = "new"
    /\ \E style \in FieldStyles, name \in FieldNames, text \in FieldTexts :
          DocFresh(<<LINE_EVENTS, DialogueLine(TIME_A, TIME_B, style, name, text)>>)
    /\ KanaIdle
    /\ NumIdle

SpecTexts == TextsInit /\ [][Next]_vars

\* files of an event section with one event, of every combination of start and end
TimesInit ==
    /\ pc = "new"
    /\ \E start \in FieldTimes, end \in FieldTimes :
          DocFresh(<<LINE_EVENTS, DialogueLine(start, end, <<"S">>, <<>>, <<"H", "i">>)>>)
    /\ KanaIdle
    /\ NumIdle

SpecTimes == TimesInit /\ [][Next]_vars

(***************************************************************************)
(* Claims about AssDocument.                                               *)
(***************************************************************************)
\* the event lines of the written file: the lines after the headers
WrittenEvents == SubSeq(out_file, Len(headers) + 1, Len(out_file))

\* the units save recovered from the blocks it was given
RecoveredUnits == TranslatedUnits(NormalizeBreaks(FullStream(blocks)))

\* C1: save writes exactly one event line for each stored template, in template
\* order, whatever the transformer returned: with k recovered units, line i is
\* template i followed by the cleaned unit i for i <= k, the bare template for
\* i > k, and units beyond the last template are discarded.
C1_OneEventLinePerTemplate ==
    pc = "saved" =>
        /\ Len(out_file) = Len(headers) + Len(event_templates)
        /\ \A i \in 1..Len(event_templates) :
              /\ Len(headers) + i <= Len(out_file)
              /\ out_file[Len(headers) + i] =
                    IF i <= Len(RecoveredUnits)
                    THEN event_templates[i] \o Cleanup(RecoveredUnits[i])
                    ELSE event_templates[i]

\* C1 witness: save has run with fewer recovered units than templates, at least one
\* unit recovered, and the last event line is its bare template.
C1_Witness ==
    /\ pc = "saved"
    /\ Len(RecoveredUnits) >= 1
    /\ Len(RecoveredUnits) < Len(event_templates)
    /\ out_file[Len(out_file)] = event_templates[Len(event_templates)]

\* C2: with a transformer that returns every payload unchanged, load followed by
\* save writes, for every extracted event, the original event line.
C2_IdentityRoundTrip ==
    (pc = "saved" /\ load_count = 1 /\ damage[1] = "identity") =>
        \A i \in 1..Len(tmpl_src) :
            /\ Len(headers) + i <= Len(out_file)
            /\ out_file[Len(headers) + i] = Strip(file[tmpl_src[i]])

\* the sequence number of a block: its first line
BlockIndexLine(text) == SubSeq(text, 1, Find(text, <<"\n">>, 1) - 1)

\* C3: after every completed load, the stored templates, the returned blocks and
\* total_event_count are of one number, and the i-th block, numbered i, comes from
\* the event line of the i-th template.
C3_ExtractionOneToOne ==
    load_count >= 1 =>
        /\ Len(event_templates) = Len(items)
        /\ Len(items) = total_event_count
        /\ \A i \in 1..Len(items) :
              /\ i <= Len(tmpl_src)
              /\ item_src[i] = tmpl_src[i]
              /\ BlockIndexLine(items[i].text) = IntToStr(i)

\* the place in the written file of the line that source line n became
OutPos(n) ==
    IF \E k \in 1..Len(hdr_src) : hdr_src[k] = n
    THEN CHOOSE k \in 1..Len(hdr_src) : hdr_src[k] = n
    ELSE Len(headers) + (CHOOSE k \in 1..Len(tmpl_src) : tmpl_src[k] = n)

\* C7: the written file keeps the relative order of the source lines, header lines
\* and event lines alike.
C7_LineOrderKept ==
    (pc = "saved" /\ load_count = 1) =>
        \A a, b \in 1..Len(file) : a < b => OutPos(a) < OutPos(b)

\* the event lines save writes when every block comes back intact
IntactEvents ==
    LET out == SaveOutput(headers, event_templates, IdentityBlocks(items))
    IN  SubSeq(out, Len(headers) + 1, Len(out))

\* C8: damage to the block of one unit (header dropped or unrecognizable, block
\* duplicated or merged into a neighbour) leaves the event line of every other
\* template as it is with all blocks intact.
C8_DamageStaysLocal ==
    (/\ pc = "saved"
     /\ load_count = 1
     /\ damage[1] \in {"drop_header", "bad_header", "duplicate", "merge"}) =>
        \A j \in 1..Len(event_templates) :
            j # damage[2] => WrittenEvents[j] = IntactEvents[j]

\* whether line n of the file lies in the event section: the nearest section header
\* before it is the [Events] line
InEventSection(n) ==
    \E e \in 1..(n - 1) :
        /\ StartsWith(Strip(file[e]), KW_EVENTS)
        /\ \A m \in (e + 1)..(n - 1) : ~StartsWith(Strip(file[m]), <<"[">>)

\* whether line n is an event line of the schema: in the event section, starting with
\* the event keyword and of 10 fields (9 separators at least)
IsSchemaEvent(n) ==
    /\ InEventSection(n)
    /\ StartsWith(Strip(file[n]), KW_DIALOGUE)
    /\ Cardinality({k \in 1..Len(file[n]) : file[n][k] = ","}) >= 9

\* the number of entries of seq that are n
Occurrences(seq, n) == Cardinality({k \in 1..Len(seq) : seq[k] = n})

\* C9: load puts every source line in exactly one of the header list and the
\* template list; only event lines of the schema inside the event section are
\* extracted; every other line (before the event section, in a section after it,
\* blank, or not of the schema) goes to the header list and yields no block.
C9_LineClassification ==
    load_count = 1 =>
        \A n \in 1..Len(file) :
            /\ Occurrences(hdr_src, n) + Occurrences(tmpl_src, n) = 1
            /\ (Occurrences(tmpl_src, n) = 1 => IsSchemaEvent(n))
            /\ (~IsSchemaEvent(n) =>
                    Occurrences(hdr_src, n) = 1 /\ Occurrences(item_src, n) = 0)

\* a well-formed ASS timestamp H:MM:SS.cc
IsAssTime(t) ==
    LET parts == Split(t, <<".">>, -1)
        hms == Split(parts[1], <<":">>, -1)
        AllDigits(x, n) == Len(x) = n /\ \A k \in 1..Len(x) : IsDigit(x[k])
    IN  /\ Len(parts) = 2 /\ AllDigits(parts[2], 2)
        /\ Len(hms) = 3
        /\ hms[1] # <<>> /\ AllDigits(hms[1], Len(hms[1]))
        /\ AllDigits(hms[2], 2) /\ AllDigits(hms[3], 2)

\* a timestamp of the shape HH:MM:SS,mmm
IsSrtTime(t) ==
    /\ Len(t) = 12
    /\ \A k \in {1, 2, 4, 5, 7, 8, 10, 11, 12} : IsDigit(t[k])
    /\ t[3] = ":" /\ t[6] = ":" /\ t[9] = ","

\* the two timestamps of the time-range line of a block
BlockTimes(text) ==
    LET n1 == Find(text, <<"\n">>, 1)
        n2 == Find(text, <<"\n">>, n1 + 1)
    IN  Split(SubSeq(text, n1 + 1, n2 - 1), <<" ", "-", "-", ">", " ">>, -1)

\* C10: a start or end field that is no well-formed H:MM:SS.cc timestamp becomes
\* 00:00:00,000; the event is extracted all the same, and the time-range line of
\* every block holds two timestamps of the shape HH:MM:SS,mmm.
C10_MalformedTimeIsZero ==
    load_count >= 1 =>
        /\ \A n \in 1..Len(file) : IsSchemaEvent(n) => Occurrences(item_src, n) = 1
        /\ \A i \in 1..Len(items) :
              LET fields == Split(Strip(file[item_src[i]]), <<",">>, 9)
                  times == BlockTimes(items[i].text)
              IN  /\ Len(times) = 2
                  /\ IsSrtTime(times[1]) /\ IsSrtTime(times[2])
                  /\ (~IsAssTime(Strip(fields[2])) => times[1] = ZERO_TIME)
                  /\ (~IsAssTime(Strip(fields[3])) => times[2] = ZERO_TIME)


(***************************************************************************)
(* save given any transformer output: one block whose text is made of      *)
(* lines of a pool.                                                        *)
(***************************************************************************)
MaxStreamLines == 4

\* a sequence number, a time-range line, an empty line, a line of white space, a
\* text with the hints in the order load writes them and a doubled break, and a
\* text with the hints in the other order
STREAM_INDEX == <<"1">>
STREAM_TIMES == <<"0", "0", ":", "0", "0", ":", "0", "1", ",", "0", "0", "0", " ", "-", "-", ">", " ", "0", "0", ":", "0", "0", ":", "0", "2", ",", "0", "0", "0">>
STREAM_EMPTY == <<>>
STREAM_SPACE == <<" ">>
STREAM_HINTED == <<"[", "B", "]", "(", "S", ")", " ", "a", "\\", "N", "\\", "N", "b">>
STREAM_REVERSED == <<"(", "S", ")", "[", "B", "]", " ", "a">>

StreamLines ==
    {STREAM_INDEX, STREAM_TIMES, STREAM_EMPTY, STREAM_SPACE, STREAM_HINTED,
     STREAM_REVERSED}

\* files of an event section with two events
StreamsInit ==
    /\ pc = "new"
    /\ DocFresh(<<LINE_EVENTS, LINE_D1, LINE_D2>>)
    /\ KanaIdle
    /\ NumIdle

\* save(output_path, blocks) with one block of any text
SaveAny ==
    /\ pc \in {"new", "loaded"}
    /\ \E ls \in SeqsUpTo(StreamLines, MaxStreamLines) :
          blocks' = <<TextBlock(Join(ls, <<"\n">>), <<>>)>>
    /\ damage' = <<"any", 0>>
    /\ out_file' = SaveOutput(headers, event_templates, blocks')
    /\ pc' = "saved"
    /\ UNCHANGED <<file, headers, events_header, event_templates, total_event_count,
                   items, load_count, hdr_src, tmpl_src, item_src, kanaVars, numVars>>

NextStreams == Load \/ SaveAny

SpecStreams == StreamsInit /\ [][NextStreams]_vars

(***************************************************************************)
(* Claims about the re-segmentation and the cleanups of save.              *)
(***************************************************************************)
\* the stream save splits: the contents of the blocks, joined and normalised
SavedStream == NormalizeBreaks(FullStream(blocks))

\* the matches of header_pattern in s from p on, leftmost first and not overlapping,
\* each as <<start, end>> with the end exclusive
RECURSIVE HeaderMatches(_, _)
HeaderMatches(s, p) ==
    LET at == {q \in p..Len(s) : HeaderMatchEnd(s, q) # 0}
    IN  IF at = {} THEN <<>>
        ELSE <<<<Least(at), HeaderMatchEnd(s, Least(at))>>>>
             \o HeaderMatches(s, HeaderMatchEnd(s, Least(at)))

\* the text between the end of match i and the start of the next match (the end of
\* the stream for the last match), without the white space around it
SegmentAfter(s, m, i) ==
    Strip(SubSeq(s, m[i][2], IF i < Len(m) THEN m[i + 1][1] - 1 ELSE Len(s)))

\* the runs of lines between empty lines; cur is the run being collected
RECURSIVE LineRuns(_, _)
LineRuns(lines, cur) ==
    IF lines = <<>> THEN (IF cur = <<>> THEN <<>> ELSE <<cur>>)
    ELSE IF Head(lines) = <<>>
         THEN (IF cur = <<>> THEN <<>> ELSE <<cur>>) \o LineRuns(Tail(lines), <<>>)
         ELSE LineRuns(Tail(lines), Append(cur, Head(lines)))

\* the chunks of s between blank lines, without the white space around them, the
\* empty ones left out
BlankLineChunks(s) ==
    LET runs == LineRuns(Split(s, <<"\n">>, -1), <<>>)
    IN  SelectSeq([k \in 1..Len(runs) |-> Strip(Join(runs[k], <<"\n">>))],
                  LAMBDA u : u # <<>>)

\* the units are one for each match of m, in order, each the text after its match;
\* without a match they are the blank-line chunks, one at least when s holds a
\* character that is no white space
ResegmentedAsClaimed(s, m, units) ==
    IF m # <<>>
    THEN /\ Len(units) = Len(m)
         /\ \A i \in 1..Len(m) : units[i] = SegmentAfter(s, m, i)
    ELSE /\ units = BlankLineChunks(s)
         /\ ((\E k \in 1..Len(s) : ~IsSpace(s[k])) => units # <<>>)

\* C11: when the stream save splits holds a header match, save recovers exactly one
\* unit for each match, in stream order, and nothing of the text before the first
\* match; when it holds none, the units are the non-empty chunks between blank
\* lines, one at least if the stream holds anything but white space; either way
\* save goes on and writes its lines.
C11_Resegmentation ==
    pc = "saved" =>
        /\ ResegmentedAsClaimed(SavedStream, HeaderMatches(SavedStream, 1), RecoveredUnits)
        /\ Len(out_file) = Len(headers) + Len(event_templates)

\* the text before the first match of m holds a character that is no white space
NoiseBefore(s, m) == \E k \in 1..(m[1][1] - 1) : ~IsSpace(s[k])

\* C11 witness: save has split a stream with text before its first header match and
\* recovered a non-empty unit after the match.
C11_Witness ==
    /\ pc = "saved"
    /\ damage[1] = "any"
    /\ HeaderMatches(SavedStream, 1) # <<>>
    /\ NoiseBefore(SavedStream, HeaderMatches(SavedStream, 1))
    /\ RecoveredUnits # <<>>
    /\ RecoveredUnits[1] # <<>>

\* a tag at i: an opening character of openers, then the first character of closers
\* on the same line; the index after it, i when there is no tag at i
ClaimedTagEnd(t, i, openers, closers) ==
    IF /\ i <= Len(t)
       /\ t[i] \in openers
       /\ FirstIn(t, i + 1, closers \cup {"\n"}) <= Len(t)
       /\ t[FirstIn(t, i + 1, closers \cup {"\n"})] # "\n"
    THEN FirstIn(t, i + 1, closers \cup {"\n"}) + 1
    ELSE i

\* a bracket tag [tag] or its full-width form at i
ClaimedBracketEnd(t, i) ==
    IF i <= Len(t) /\ t[i] = FW_LBRACKET
    THEN ClaimedTagEnd(t, i, {FW_LBRACKET}, {FW_RBRACKET})
    ELSE ClaimedTagEnd(t, i, {"["}, {"]"})

\* a paren tag (tag) or its full-width form at i
ClaimedParenEnd(t, i) == ClaimedTagEnd(t, i, {"(", FW_LPAREN}, {")", FW_RPAREN})

\* the end of the leading hint of t: a bracket tag and a paren tag, each optional, in
\* either order
ClaimedHintEnd(t) ==
    IF ClaimedBracketEnd(t, 1) > 1
    THEN ClaimedParenEnd(t, ClaimedBracketEnd(t, 1))
    ELSE ClaimedBracketEnd(t, ClaimedParenEnd(t, 1))

\* the text bound to template i: what save wrote after the template's prefix
BoundText(i) ==
    SubSeq(WrittenEvents[i], Len(event_templates[i]) + 1, Len(WrittenEvents[i]))

\* the unit without its leading hint, its newlines written as the escape token and
\* runs of the token collapsed
ClaimedBoundText(u) ==
    DedupeBreaks(Replace(Strip(From(u, ClaimedHintEnd(u))), <<"\n">>, <<"\\", "N">>))

\* C12: for every recovered unit bound to a template, save removes a leading hint
\* made of an optional bracket tag and an optional paren tag, in either order, and
\* the text it binds holds no newline and no two escape tokens in a row.
C12_HintsAndBreaks ==
    pc = "saved" =>
        \A i \in 1..Min(Len(RecoveredUnits), Len(event_templates)) :
            /\ BoundText(i) = ClaimedBoundText(RecoveredUnits[i])
            /\ ~Contains(BoundText(i), <<"\n">>)
            /\ ~Contains(BoundText(i), <<"\\", "N", "\\", "N">>)

\* the end of the leading hint of t in the order load writes it: a bracket tag, then
\* a paren tag, each optional
OrderedHintEnd(t) == ClaimedParenEnd(t, ClaimedBracketEnd(t, 1))

\* the unit without its leading hint in that order, its newlines written as the
\* escape token and runs of the token collapsed
OrderedBoundText(u) ==
    DedupeBreaks(Replace(Strip(From(u, OrderedHintEnd(u))), <<"\n">>, <<"\\", "N">>))

\* C12, amended: for every recovered unit bound to a template, save removes a leading
\* hint made of an optional bracket tag followed by an optional paren tag, in this
\* order only, with the white space around the rest, and the text it binds holds no
\* newline and no two escape tokens in a row.
C12_OrderedHintsAndBreaks ==
    pc = "saved" =>
        \A i \in 1..Min(Len(RecoveredUnits), Len(event_templates)) :
            /\ BoundText(i) = OrderedBoundText(RecoveredUnits[i])
            /\ ~Contains(BoundText(i), <<"\n">>)
            /\ ~Contains(BoundText(i), <<"\\", "N", "\\", "N">>)

\* C12 witness: save has bound a unit that starts with a bracket tag and a paren tag
\* and holds an empty line, and wrote its text without the tags and with one escape
\* token.
C12_Witness ==
    /\ pc = "saved"
    /\ damage[1] = "any"
    /\ event_templates # <<>>
    /\ RecoveredUnits # <<>>
    /\ ClaimedBracketEnd(RecoveredUnits[1], 1) > 1
    /\ OrderedHintEnd(RecoveredUnits[1]) > ClaimedBracketEnd(RecoveredUnits[1], 1)
    /\ Contains(RecoveredUnits[1], <<"\n", "\n">>)
    /\ BoundText(1) = <<"a", "\\", "N", "b">>

====
